---- MODULE Spec2Model ----
(***************************************************************************)
(* Navigation engine of CaddyMate-GUI (src/map.py): the store grid         *)
(* (generate_map), the any-angle search (theta_star with its nested        *)
(* line_of_sight), and the StoreMap session (UDP pose intake, smoothing,   *)
(* replanning poll and arrival).                                           *)
(*                                                                         *)
(* Representation.  Python floats are fixed-point integers: lengths of the *)
(* search in 1/DistScale cells.  A cell is the pair <<row, col>>.  None    *)
(* (no path, no goal, no cell) is the empty tuple <<>>; a returned path    *)
(* always holds at least one cell, so the two never collide.               *)
(***************************************************************************)
EXTENDS Integers, Sequences, FiniteSets, TLC

VARIABLES
    \* ---- a call of theta_star, one loop pass per step ----
    t_grid,          \* argument grid
    t_start,         \* argument start
    t_goal,          \* argument goal
    t_state,         \* open_set, parent, g_score, and the returned value
    t_pc,            \* "idle", "running" (inside the loop), "returned", "sighted"
    t_sight,         \* both directions of one line_of_sight query, or None
    \* ---- StoreMap fields ----
    store_grid,      \* self.grid
    aisle_locations, \* self.aisle_locations
    target_aisle,    \* self.target_aisle
    map_args,        \* the arguments generate_map was called with
    start_result,    \* what start_navigation handed to its caller
    robot_x, robot_y, robot_theta,     \* displayed pose
    sensor_x, sensor_y, sensor_theta,  \* latest pose from the UDP listener
    current_goal,    \* self.current_goal
    remaining_path,  \* self.remaining_path
    last_path_time,  \* self._last_path_time
    last_path_cell,  \* self._last_path_cell
    udp_stop,        \* self._udp_stop
    udp_lock,        \* holder of self._udp_lock: "free", "listener" or "tk"
    \* ---- Tk and the threads ----
    exists,          \* self.winfo_exists()
    started,         \* __init__ has run start_navigation and started the loops
    poll_pending,    \* an after(100, poll_position_update) callback is outstanding
    visuals_pending, \* an after(DRAW_INTERVAL_MS, update_visuals) callback is outstanding
    listener_pc,     \* position of the _udp_listener thread
    udp_inbox,       \* datagrams waiting in the socket of the listener
    listener_msg,    \* datagram text the listener has received and is working on
    prev_listener_pc, \* listener thread of the session shown before this one
    listener_pose,   \* pose parsed by the listener, about to be stored
    tk_pc,           \* position of the Tk thread inside a "with self._udp_lock" block
    tk_read,         \* locals sx, sy, stheta of the reading callback
    now,             \* time.monotonic(), in clock ticks
    \* ---- history ----
    draws,           \* number of update_visuals callbacks that have run
    arrivals,        \* number of on_arrival() calls
    search_log       \* time, start cell and result of each theta_star call of a poll tick

theta_vars == <<t_grid, t_start, t_goal, t_state, t_pc, t_sight>>

map_vars == <<store_grid, aisle_locations, target_aisle, map_args>>

robot_vars == <<robot_x, robot_y, robot_theta>>

sensor_vars == <<sensor_x, sensor_y, sensor_theta>>

plan_vars == <<current_goal, remaining_path, last_path_time, last_path_cell>>

history_vars == <<arrivals, search_log>>

thread_vars == <<udp_lock, listener_pose, listener_msg, udp_inbox, tk_pc, tk_read,
                 prev_listener_pc>>

vars == <<theta_vars, map_vars, robot_vars, sensor_vars, plan_vars, history_vars,
          thread_vars, udp_stop, exists, started, start_result, poll_pending,
          visuals_pending, listener_pc, now, draws>>

\* ------------------------------------------------------------------------
\* Bounds
\* ------------------------------------------------------------------------
\* grids of the search specification
GridRows == 2
GridCols == 3
MaxBlocked == 2

\* walled grids a replan runs on: InnerRows x InnerCols cells inside the
\* wall, up to MaxInnerBlocked of them Blocked
InnerRows == 2
InnerCols == 3
MaxInnerBlocked == 1

\* the session: resolution and end of the clock, latest start, smoothing steps observed
TicksPerSecond == 2
MaxTime == 5
MaxStartTime == 2
MaxDraws == 2
MaxSmoothTicks == 45

\* datagrams the socket holds for the listener
MaxInbox == 1

\* arguments generate_map is called with: 0 .. MaxAisleCount aisles in
\* 0 .. MaxRowCount rows
MaxAisleCount == 17
MaxRowCount == 3

\* ------------------------------------------------------------------------
\* Numbers
\* ------------------------------------------------------------------------
DistScale == 1000

Inf == 1000000000

None == <<>>

Abs(x) == IF x < 0 THEN -x ELSE x

RECURSIVE ISqrtBetween(_, _, _)
ISqrtBetween(n, lo, hi) ==
    IF lo >= hi THEN lo
    ELSE LET mid == (lo + hi + 1) \div 2
         IN  IF mid * mid <= n THEN ISqrtBetween(n, mid, hi)
                               ELSE ISqrtBetween(n, lo, mid - 1)

\* math.hypot on integer cell offsets, in 1/DistScale cells (rounded down)
Hypot(dr, dc) == ISqrtBetween((dr * dr + dc * dc) * DistScale * DistScale, 0, 46340)

\* ------------------------------------------------------------------------
\* theta_star (src/map.py:94-205)
\* ------------------------------------------------------------------------
rows(grid) == Cardinality(DOMAIN grid)
cols(grid) == Cardinality(DOMAIN grid[0])

heuristic(a, b) == Hypot(a[1] - b[1], a[2] - b[2])

distance(a, b) == Hypot(a[1] - b[1], a[2] - b[2])

\* the "while c != c1" walk; err2 is twice the float err (dc / 2.0 is a half)
RECURSIVE los_walk_cols(_, _, _, _, _, _, _, _, _)
los_walk_cols(grid, r, c, err2, dr, dc, step_r, step_c, c1) ==
    IF c = c1 THEN TRUE
    ELSE IF grid[r][c] = 1 THEN FALSE
    ELSE LET e == err2 - 2 * dr
         IN  IF e < 0
             THEN IF grid[r + step_r][c] = 1 \/ grid[r][c + step_c] = 1
                  THEN FALSE
                  ELSE los_walk_cols(grid, r + step_r, c + step_c, e + 2 * dc,
                                     dr, dc, step_r, step_c, c1)
             ELSE los_walk_cols(grid, r, c + step_c, e, dr, dc, step_r, step_c, c1)

\* the "while r != r1" walk
RECURSIVE los_walk_rows(_, _, _, _, _, _, _, _, _)
los_walk_rows(grid, r, c, err2, dr, dc, step_r, step_c, r1) ==
    IF r = r1 THEN TRUE
    ELSE IF grid[r][c] = 1 THEN FALSE
    ELSE LET e == err2 - 2 * dc
         IN  IF e < 0
             THEN IF grid[r + step_r][c] = 1 \/ grid[r][c + step_c] = 1
                  THEN FALSE
                  ELSE los_walk_rows(grid, r + step_r, c + step_c, e + 2 * dr,
                                     dr, dc, step_r, step_c, r1)
             ELSE los_walk_rows(grid, r + step_r, c, e, dr, dc, step_r, step_c, r1)

line_of_sight(grid, a, b) ==
    LET r0 == a[1]
        c0 == a[2]
        r1 == b[1]
        c1 == b[2]
        step_r == IF r1 - r0 > 0 THEN 1 ELSE -1
        step_c == IF c1 - c0 > 0 THEN 1 ELSE -1
        dr == Abs(r1 - r0)
        dc == Abs(c1 - c0)
    IN  IF grid[r0][c0] = 1 \/ grid[r1][c1] = 1 THEN FALSE
        ELSE IF dc > dr
             THEN los_walk_cols(grid, r0, c0, dc, dr, dc, step_r, step_c, c1)
                  /\ grid[r1][c1] = 0
             ELSE los_walk_rows(grid, r0, c0, dr, dr, dc, step_r, step_c, r1)
                  /\ grid[r1][c1] = 0

neighbors == << <<0, 1>>, <<0, -1>>, <<1, 0>>, <<-1, 0>>,
                <<1, 1>>, <<1, -1>>, <<-1, 1>>, <<-1, -1>> >>

\* tuple order of heapq entries (f, (row, col))
heap_less(x, y) ==
    \/ x[1] < y[1]
    \/ x[1] = y[1] /\ x[2][1] < y[2][1]
    \/ x[1] = y[1] /\ x[2][1] = y[2][1] /\ x[2][2] < y[2][2]

heap_top(open_set) == CHOOSE x \in open_set : \A y \in open_set : y = x \/ heap_less(x, y)

\* state of a call right after lines 107-111
theta_begin(start) ==
    [open_set |-> {<<0, start>>},
     parent   |-> (start :> start),
     g_score  |-> (start :> 0),
     done     |-> FALSE,
     result   |-> None]

\* the same with "<=" for "<" in the test of lines 192 and 199
relax_push_nonstrict(st, g0, via, neighbour, goal) ==
    LET tentative_g == g0[via] + distance(via, neighbour)
    IN  IF tentative_g <= g0[neighbour]
        THEN [st EXCEPT !.parent   = (neighbour :> via) @@ st.parent,
                        !.g_score  = [g0 EXCEPT ![neighbour] = tentative_g],
                        !.open_set = @ \cup {<<tentative_g + heuristic(neighbour, goal),
                                               neighbour>>}]
        ELSE [st EXCEPT !.g_score = g0]

\* push of a better predecessor "via" for neighbour (lines 192-196 and 199-203)
relax_push(st, g0, via, neighbour, goal) ==
    LET tentative_g == g0[via] + distance(via, neighbour)
    IN  IF tentative_g < g0[neighbour]
        THEN [st EXCEPT !.parent   = (neighbour :> via) @@ st.parent,
                        !.g_score  = [g0 EXCEPT ![neighbour] = tentative_g],
                        !.open_set = @ \cup {<<tentative_g + heuristic(neighbour, goal),
                                               neighbour>>}]
        ELSE [st EXCEPT !.g_score = g0]

\* a bounds test that lets the row after the last one through
in_bounds_past_last_row(grid, cell) ==
    /\ 0 <= cell[1] /\ cell[1] <= rows(grid)
    /\ 0 <= cell[2] /\ cell[2] < cols(grid)

\* the bounds test of line 182
in_bounds(grid, cell) ==
    /\ 0 <= cell[1] /\ cell[1] < rows(grid)
    /\ 0 <= cell[2] /\ cell[2] < cols(grid)

\* a relaxation that only moves along the axes from the current cell: no
\* diagonal neighbour and no shortcut from the parent
relax_axis_moves(grid, goal, st, current, d) ==
    LET neighbour == <<current[1] + d[1], current[2] + d[2]>>
    IN  IF ~in_bounds(grid, neighbour)
        THEN st
        ELSE IF grid[neighbour[1]][neighbour[2]] = 1
        THEN st
        ELSE LET g0 == IF neighbour \in DOMAIN st.g_score
                       THEN st.g_score
                       ELSE (neighbour :> Inf) @@ st.g_score
             IN  IF d[1] # 0 /\ d[2] # 0
                 THEN [st EXCEPT !.g_score = g0]
                 ELSE relax_push(st, g0, current, neighbour, goal)

\* body of "for dr, dc in neighbors" for one offset (lines 180-203)
relax(grid, goal, st, current, d) ==
    LET neighbour == <<current[1] + d[1], current[2] + d[2]>>
    IN  IF ~in_bounds(grid, neighbour)
        THEN st
        ELSE IF grid[neighbour[1]][neighbour[2]] = 1
        THEN st
        ELSE LET g0 == IF neighbour \in DOMAIN st.g_score
                       THEN st.g_score
                       ELSE (neighbour :> Inf) @@ st.g_score
             IN  IF line_of_sight(grid, st.parent[current], neighbour)
                 THEN relax_push(st, g0, st.parent[current], neighbour, goal)
                 ELSE relax_push(st, g0, current, neighbour, goal)

RECURSIVE expand(_, _, _, _, _)
expand(grid, goal, st, current, i) ==
    IF i > Len(neighbors) THEN st
    ELSE expand(grid, goal, relax(grid, goal, st, current, neighbors[i]), current, i + 1)

\* the walk of lines 173-176 without the reversal of line 177
RECURSIVE walk_parents_unreversed(_, _)
walk_parents_unreversed(parent, current) ==
    IF current = parent[current] THEN <<current>>
    ELSE <<current>> \o walk_parents_unreversed(parent, parent[current])

\* lines 173-177: walk the parent pointers, then reverse
RECURSIVE walk_parents(_, _)
walk_parents(parent, current) ==
    IF current = parent[current] THEN <<current>>
    ELSE walk_parents(parent, parent[current]) \o <<current>>

\* one pass of "while open_set" for the popped entry top (lines 170-203)
theta_pass(grid, goal, st, top) ==
    LET current == top[2]
        popped  == [st EXCEPT !.open_set = @ \ {top}]
    IN  IF current = goal
        THEN [popped EXCEPT !.done = TRUE, !.result = walk_parents(st.parent, current)]
        ELSE expand(grid, goal, popped, current, 1)

\* one pass of "while open_set" (lines 169-203), or the return None of line 205
theta_iteration(grid, goal, st) ==
    IF st.open_set = {}
    THEN [st EXCEPT !.done = TRUE, !.result = None]
    ELSE theta_pass(grid, goal, st, heap_top(st.open_set))

RECURSIVE theta_run(_, _, _)
theta_run(grid, goal, st) ==
    IF st.done THEN st.result
    ELSE theta_run(grid, goal, theta_iteration(grid, goal, st))

theta_star(grid, start, goal) == theta_run(grid, goal, theta_begin(start))

\* ------------------------------------------------------------------------
\* generate_map (src/map.py:32-92)
\* ------------------------------------------------------------------------
SHELF_WIDTH == 2
SHELF_HEIGHT == 8
SHELF_SPACING_X == 5
START_X == 3
ROW_1_Y == 3
ROW_2_Y == 16
SHELVES_PER_ROW == 7
grid_width == 39
grid_height == 28
AISLE_ROWS == 2

shelf_row_starts == <<ROW_1_Y, ROW_2_Y>>

\* walls on three sides only
is_wall_open_side(r, c) == r = 0 \/ r = grid_height - 1 \/ c = 0

\* lines 60-65
is_wall(r, c) == r = 0 \/ r = grid_height - 1 \/ c = 0 \/ c = grid_width - 1

\* lines 68-74
is_shelf(r, c) ==
    \E k \in 1 .. Len(shelf_row_starts), i \in 0 .. SHELVES_PER_ROW - 1 :
        LET sx == START_X + i * SHELF_SPACING_X
        IN  /\ shelf_row_starts[k] <= r /\ r < shelf_row_starts[k] + SHELF_HEIGHT
            /\ sx <= c /\ c < sx + SHELF_WIDTH

\* goals two columns to the right, on the shelf
aisle_entry_on_shelf(a) ==
    LET k     == (a - 1) \div (SHELVES_PER_ROW + 1) + 1
        i     == (a - 1) % (SHELVES_PER_ROW + 1)
        cx2   == 3 + 2 * i * SHELF_SPACING_X
        top_y == shelf_row_starts[k]
        bot_y == shelf_row_starts[k] + SHELF_HEIGHT - 1
    IN  [top    |-> <<top_y, cx2>>,
         bottom |-> <<bot_y, cx2>>,
         goal   |-> <<(top_y + bot_y) \div 2, cx2 \div 2 + 2>>]

\* lines 77-90; aisle ids are the numbers whose decimal strings are the keys;
\* cx = 1.5 + i * SHELF_SPACING_X is kept doubled (cx2) in "top" and "bottom"
aisle_entry(a) ==
    LET k     == (a - 1) \div (SHELVES_PER_ROW + 1) + 1
        i     == (a - 1) % (SHELVES_PER_ROW + 1)
        cx2   == 3 + 2 * i * SHELF_SPACING_X
        top_y == shelf_row_starts[k]
        bot_y == shelf_row_starts[k] + SHELF_HEIGHT - 1
    IN  [top    |-> <<top_y, cx2>>,
         bottom |-> <<bot_y, cx2>>,
         goal   |-> <<(top_y + bot_y) \div 2, cx2 \div 2>>]

\* the grid of lines 56-74, which is built from the constants of lines 36-54
shelf_grid ==
    [r \in 0 .. grid_height - 1 |->
        [c \in 0 .. grid_width - 1 |->
            IF is_wall(r, c) \/ is_shelf(r, c) THEN 1 ELSE 0]]

\* the table of lines 76-90, built from the same constants
aisle_locs == [a \in 1 .. Len(shelf_row_starts) * (SHELVES_PER_ROW + 1) |-> aisle_entry(a)]

\* neither parameter is read by the body
generate_map(num_aisles, num_rows) ==
    [grid        |-> shelf_grid,
     aisle_locs  |-> aisle_locs,
     grid_width  |-> grid_width,
     grid_height |-> grid_height]

\* ------------------------------------------------------------------------
\* StoreMap (src/map.py:208-579)
\* ------------------------------------------------------------------------
\* poses are fixed-point: 1/PoseScale cells and 1/PoseScale radians
PoseScale == 10000

Pi == 31416

THETA_IN_DEGREES == TRUE

THETA_OFFSET_DEGREES == 90

PATH_RECALC_INTERVAL_S == 1

\* get_max_aisle() of an empty catalog
max_aisles == 16

\* aisles asked for by the UI: one of the table, one that is not
TargetAisles == {1, 17}

\* poses (x, z in 1/PoseScale cells, theta in degrees) carried by datagrams:
\* next to the goal of aisle 1, inside a shelf, left of the grid, in a free lane
Samples ==
    {[x |-> 12000,  z |-> 63000, theta |-> 0],
     [x |-> 35000,  z |-> 45000, theta |-> 90],
     [x |-> -15000, z |-> 25000, theta |-> 180],
     [x |-> 25000,  z |-> 40000, theta |-> 270]}

\* a comma-separated part of a datagram text, or the value of a JSON key:
\* text that float() accepts, with its value, text that it rejects, or no
\* value at all (the key is missing)
Num(v) == [kind |-> "float", value |-> v]

Junk == [kind |-> "text", value |-> 0]

Absent == [kind |-> "absent", value |-> 0]

\* datagram texts after decode and strip (lines 291-293): a JSON object with
\* the values of its keys x, z, theta, or any other text with its
\* comma-separated parts (no part at all: the empty text)
json_text(x, z, theta) == [form |-> "json", parts |-> <<x, z, theta>>]

csv_text(parts) == [form |-> "csv", parts |-> parts]

PoseTexts ==
    {csv_text(<<Num(p.x), Num(p.z), Num(p.theta)>>) : p \in Samples}
        \cup {json_text(Num(12000), Num(63000), Num(0))}

BadTexts ==
    {csv_text(<<>>),
     csv_text(<<Num(25000), Num(40000)>>),
     csv_text(<<Num(25000), Junk, Num(270)>>),
     json_text(Num(25000), Num(40000), Absent)}

Datagrams == PoseTexts \cup BadTexts

\* _parse_pose_message (lines 308-326), after the test of line 292: the JSON
\* attempt, then the CSV attempt (which no JSON object passes: its first
\* part starts with a brace), then None
parse_pose_message(message) ==
    IF message.parts = <<>> THEN None
    ELSE IF /\ message.form = "json"
            /\ \A i \in 1 .. 3 : message.parts[i].kind = "float"
    THEN <<message.parts[1].value, message.parts[2].value, message.parts[3].value>>
    ELSE IF /\ message.form = "csv"
            /\ Len(message.parts) >= 3
            /\ \A i \in 1 .. 3 : message.parts[i].kind = "float"
    THEN <<message.parts[1].value, message.parts[2].value, message.parts[3].value>>
    ELSE None

\* division rounding towards zero
TDiv(a, b) == IF a >= 0 THEN a \div b ELSE -((-a) \div b)

\* int() of a float
int(v) == TDiv(v, PoseScale)

\* math.radians(theta + THETA_OFFSET_DEGREES) (lines 299-300)
to_radians(theta) ==
    IF THETA_IN_DEGREES THEN TDiv((theta + THETA_OFFSET_DEGREES) * Pi, 180)
                        ELSE theta * PoseScale

\* math.hypot(sx - gx, sy - gy) < 1.5 (lines 563-564), exact on the fixed-point pose
within_arrival(sx, sy, goal) ==
    LET dx == sx - goal[2] * PoseScale
        dy == sy - goal[1] * PoseScale
    IN  /\ 2 * Abs(dx) < 3 * PoseScale
        /\ 2 * Abs(dy) < 3 * PoseScale
        /\ 4 * (dx * dx + dy * dy) < 9 * PoseScale * PoseScale

\* a poll tick deciding on the displayed pose instead
poll_pose_displayed == <<robot_x, robot_y>>

\* the pose a poll tick decides on (lines 560-562)
poll_pose == <<sensor_x, sensor_y>>

\* a poll tick without the return of line 567
poll_reschedules_always(arrived) == TRUE

\* whether a poll tick ends with self.after(100, ...) (lines 564-567, 579)
poll_reschedules(arrived) == ~arrived

\* a poll tick without the throttle test
interval_elapsed_always(t, last) == TRUE

\* the throttle test of line 571
interval_elapsed(t, last) == t - last >= PATH_RECALC_INTERVAL_S * TicksPerSecond

\* a with block that does not wait for the lock
may_acquire_unlocked(lock) == TRUE

\* "with self._udp_lock" may enter
may_acquire(lock) == lock = "free"

\* a replan that stores the result whatever it is
replanned_path_cleared(path, remaining) == IF path # None THEN Tail(path) ELSE <<>>

\* what a replan leaves in remaining_path (lines 573-575)
replanned_path(path, remaining) == IF path # None THEN Tail(path) ELSE remaining

\* callbacks that take the widget for alive whatever has happened to it
winfo_exists_always(alive) == TRUE

\* the test "if not self.winfo_exists(): return" of both callbacks (lines 455, 554)
winfo_exists(alive) == alive

\* a smoothing factor above one: value * 1.2
fifth_and_whole(v) == TDiv(v * 12, 10)

\* value * 0.2
fifth(v) == TDiv(v * 2, 10)

\* state of a new StoreMap before the calls of lines 261-268 (lines 218-259)
InitStoreMap ==
    /\ store_grid = generate_map(max_aisles, AISLE_ROWS).grid
    /\ aisle_locations = generate_map(max_aisles, AISLE_ROWS).aisle_locs
    /\ target_aisle \in TargetAisles
    /\ map_args = <<max_aisles, AISLE_ROWS>>
    /\ start_result = "not called"
    /\ robot_x = 2 * PoseScale
    /\ robot_y = 2 * PoseScale
    /\ robot_theta = 0
    /\ sensor_x = 2 * PoseScale
    /\ sensor_y = 2 * PoseScale
    /\ sensor_theta = 0
    /\ current_goal = None
    /\ remaining_path = <<>>
    /\ last_path_time = 0
    /\ last_path_cell = None
    /\ udp_stop = FALSE
    /\ udp_lock = "free"
    /\ exists = TRUE
    /\ started = FALSE
    /\ poll_pending = FALSE
    /\ visuals_pending = FALSE
    /\ listener_pc = "unstarted"
    /\ udp_inbox = <<>>
    /\ listener_msg = None
    /\ listener_pose = None
    /\ prev_listener_pc = "none"
    /\ tk_pc = "idle"
    /\ tk_read = None
    /\ now \in 0 .. MaxStartTime
    /\ draws = 0
    /\ arrivals = 0
    /\ search_log = <<>>

\* a lookup that falls back to the first aisle of the table
start_goal_defaulting(aisle, table) ==
    IF aisle \in DOMAIN table THEN table[aisle].goal ELSE table[1].goal

\* the lookup of lines 543-544; None when the aisle is not in the table
start_goal(aisle, table) ==
    IF aisle \in DOMAIN table THEN table[aisle].goal ELSE None

\* what a caller of start_navigation gets: no branch of lines 541-549 has a
\* return statement or a raise, so the call ends by returning None
start_navigation_result(aisle, table) == "returned None"

\* start_navigation (lines 541-549)
start_navigation ==
    LET goal == start_goal(target_aisle, aisle_locations)
    IN  /\ start_result' = start_navigation_result(target_aisle, aisle_locations)
        /\ IF goal # None
           THEN LET start == <<int(robot_y), int(robot_x)>>
                    path  == theta_star(store_grid, start, goal)
                IN  IF path # None
                    THEN current_goal' = goal /\ remaining_path' = Tail(path)
                    ELSE UNCHANGED <<current_goal, remaining_path>>
           ELSE UNCHANGED <<current_goal, remaining_path>>

\* the end of __init__ (lines 262-268): first update_visuals (the sensor pose
\* still equals the displayed pose, only the timer is set), start_navigation,
\* start_udp_listener (its bind taken as done), and the first
\* poll_position_update, which comes as the first poll step
StartSession ==
    /\ ~started
    /\ started' = TRUE
    /\ start_navigation
    /\ visuals_pending' = TRUE
    /\ poll_pending' = TRUE
    /\ listener_pc' = "check"
    /\ UNCHANGED <<theta_vars, map_vars, robot_vars, sensor_vars, history_vars, thread_vars,
                   last_path_time, last_path_cell, udp_stop, exists, now, draws>>

\* _on_destroy, run on the Tk thread when Back or the return to the main menu
\* destroys the widget (lines 270-272, src/ui.py:58-64); clearing the window
\* again finds no widget and setting the flag again changes nothing
Destroy ==
    /\ started
    /\ tk_pc = "idle"
    /\ exists' = FALSE
    /\ udp_stop' = TRUE
    /\ UNCHANGED <<theta_vars, map_vars, robot_vars, sensor_vars, plan_vars, history_vars,
                   thread_vars, started, start_result, poll_pending, visuals_pending,
                   listener_pc, now, draws>>

\* a loop that never looks at the stop flag
loop_goes_on_blind(stop) == TRUE

\* "while not self._udp_stop.is_set()" (line 285)
loop_goes_on(stop) == ~stop

\* _udp_listener: the loop test (line 285) and the close of the socket (line 306)
ListenerCheckStop ==
    /\ listener_pc = "check"
    /\ listener_pc' = IF loop_goes_on(udp_stop) THEN "recv" ELSE "closed"
    /\ UNCHANGED <<theta_vars, map_vars, robot_vars, sensor_vars, plan_vars, history_vars,
                   thread_vars, udp_stop, exists, started, start_result, poll_pending,
                   visuals_pending, now, draws>>

\* _udp_listener: recvfrom times out (lines 286-289)
ListenerTimeout ==
    /\ listener_pc = "recv"
    /\ udp_inbox = <<>>
    /\ listener_pc' = "check"
    /\ UNCHANGED <<theta_vars, map_vars, robot_vars, sensor_vars, plan_vars, history_vars,
                   thread_vars, udp_stop, exists, started, start_result, poll_pending,
                   visuals_pending, now, draws>>

\* _udp_listener: a datagram arrives, is parsed and, when it holds a pose,
\* stored under the lock (lines 287-304)
ListenerReceive ==
    /\ listener_pc = "recv"
    /\ may_acquire(udp_lock)
    /\ \E message \in Datagrams :
          LET pose == parse_pose_message(message)
          IN  IF pose # None
              THEN /\ sensor_x' = pose[1]
                   /\ sensor_y' = pose[2]
                   /\ sensor_theta' = to_radians(pose[3])
              ELSE UNCHANGED sensor_vars
    /\ listener_pc' = "check"
    /\ UNCHANGED <<theta_vars, map_vars, robot_vars, plan_vars, history_vars, thread_vars,
                   udp_stop, exists, started, start_result, poll_pending, visuals_pending, now,
                   draws>>

\* update_visuals (lines 453-539), one tick: the smoothing of the displayed
\* pose; the camera and the canvas are presentation
update_visuals_tick ==
    /\ visuals_pending
    /\ may_acquire(udp_lock)
    /\ IF ~winfo_exists(exists)
       THEN /\ visuals_pending' = FALSE
            /\ UNCHANGED <<robot_vars, draws>>
       ELSE LET sx     == sensor_x
                sy     == sensor_y
                stheta == sensor_theta
                dx     == sx - robot_x
                dy     == sy - robot_y
                diff   == ((stheta - robot_theta + Pi) % (2 * Pi)) - Pi
            IN  /\ IF Abs(dx) * 1000 > PoseScale \/ Abs(dy) * 1000 > PoseScale
                   THEN /\ robot_x' = robot_x + fifth(dx)
                        /\ robot_y' = robot_y + fifth(dy)
                   ELSE UNCHANGED <<robot_x, robot_y>>
                /\ IF Abs(diff) * 1000 > PoseScale
                   THEN robot_theta' = robot_theta + fifth(diff)
                   ELSE UNCHANGED robot_theta
                /\ draws' = draws + 1
                /\ visuals_pending' = TRUE
    /\ UNCHANGED <<theta_vars, map_vars, sensor_vars, plan_vars, history_vars, thread_vars,
                   udp_stop, exists, started, start_result, poll_pending, listener_pc, now>>

\* the ticks of update_visuals of a session, up to MaxDraws of them
update_visuals == draws < MaxDraws /\ update_visuals_tick

\* poll_position_update (lines 552-579)
poll_position_update ==
    /\ poll_pending
    /\ may_acquire(udp_lock)
    /\ IF ~winfo_exists(exists)
       THEN /\ poll_pending' = FALSE
            /\ UNCHANGED <<plan_vars, history_vars>>
       ELSE IF current_goal = None
       THEN /\ poll_pending' = TRUE
            /\ UNCHANGED <<plan_vars, history_vars>>
       ELSE LET sx == poll_pose[1]
                sy == poll_pose[2]
                arrived == within_arrival(sx, sy, current_goal)
                current_cell == <<int(sy), int(sx)>>
            IN  IF arrived
                THEN /\ arrivals' = arrivals + 1
                     /\ poll_pending' = poll_reschedules(arrived)
                     /\ UNCHANGED <<plan_vars, search_log>>
                ELSE /\ poll_pending' = poll_reschedules(arrived)
                     /\ UNCHANGED <<arrivals, current_goal>>
                     /\ IF interval_elapsed(now, last_path_time)
                        THEN /\ last_path_time' = now
                             /\ IF current_cell # last_path_cell
                                THEN LET path == theta_star(store_grid, current_cell, current_goal)
                                     IN  /\ remaining_path' = replanned_path(path, remaining_path)
                                         /\ last_path_cell' = current_cell
                                         /\ search_log' = Append(search_log,
                                                                  [time |-> now,
                                                                   cell |-> current_cell,
                                                                   path |-> path])
                                ELSE UNCHANGED <<remaining_path, last_path_cell, search_log>>
                        ELSE UNCHANGED <<remaining_path, last_path_time, last_path_cell,
                                         search_log>>
    /\ UNCHANGED <<theta_vars, map_vars, robot_vars, sensor_vars, thread_vars, udp_stop,
                   exists, started, start_result, visuals_pending, listener_pc, now, draws>>

\* time.monotonic() moves on
AdvanceTime ==
    /\ now < MaxTime
    /\ now' = now + 1
    /\ UNCHANGED <<theta_vars, map_vars, robot_vars, sensor_vars, plan_vars, history_vars,
                   thread_vars, udp_stop, exists, started, start_result, poll_pending,
                   visuals_pending, listener_pc, draws>>

\* no theta_star call is being traced
ThetaIdle ==
    /\ t_grid = None
    /\ t_start = None
    /\ t_goal = None
    /\ t_state = None
    /\ t_pc = "idle"
    /\ t_sight = None

Init == InitStoreMap /\ ThetaIdle

Next ==
    \/ StartSession
    \/ Destroy
    \/ ListenerCheckStop
    \/ ListenerTimeout
    \/ ListenerReceive
    \/ update_visuals
    \/ poll_position_update
    \/ AdvanceTime

Spec == Init /\ [][Next]_vars

\* ------------------------------------------------------------------------
\* Specification of the pose hand-over: the listener thread and the Tk
\* thread, one field access per step
\* ------------------------------------------------------------------------
\* sock.bind((UDP_HOST, UDP_PORT)) (line 283; no socket option is set): it
\* raises while the socket of the former listener is bound to the port, and
\* may raise for a reason outside the program
bind_result(prev) == IF prev = "bound" THEN {"closed"} ELSE {"check", "closed"}

\* _udp_listener: socket() and bind (lines 281-284); an OSError of bind leaves
\* through the finally block, which closes the socket
ListenerBind ==
    /\ listener_pc = "bind"
    /\ listener_pc' \in bind_result(prev_listener_pc)
    /\ UNCHANGED <<theta_vars, map_vars, robot_vars, sensor_vars, plan_vars, history_vars,
                   thread_vars, udp_stop, exists, started, start_result, poll_pending,
                   visuals_pending, now, draws>>

\* a datagram reaches the bound socket and waits for recvfrom (line 287)
SendDatagram ==
    /\ listener_pc \notin {"unstarted", "bind", "closed"}
    /\ Len(udp_inbox) < MaxInbox
    /\ \E message \in Datagrams : udp_inbox' = Append(udp_inbox, message)
    /\ UNCHANGED <<theta_vars, map_vars, robot_vars, sensor_vars, plan_vars, history_vars,
                   udp_lock, listener_pose, listener_msg, tk_pc, tk_read, udp_stop, exists,
                   started, start_result, poll_pending, visuals_pending, listener_pc, now,
                   draws, prev_listener_pc>>

\* _udp_listener: recvfrom returns a datagram (lines 287, 291)
ListenerRecv ==
    /\ listener_pc = "recv"
    /\ udp_inbox # <<>>
    /\ listener_msg' = Head(udp_inbox)
    /\ udp_inbox' = Tail(udp_inbox)
    /\ listener_pc' = "parse"
    /\ UNCHANGED <<theta_vars, map_vars, robot_vars, sensor_vars, plan_vars, history_vars,
                   udp_lock, listener_pose, tk_pc, tk_read, udp_stop, exists, started,
                   start_result, poll_pending, visuals_pending, now, draws, prev_listener_pc>>

\* _udp_listener: recvfrom raises an error that is no timeout; the finally
\* block closes the socket (lines 287-289, 305-306)
ListenerRaise ==
    /\ listener_pc = "recv"
    /\ listener_pc' = "closed"
    /\ UNCHANGED <<theta_vars, map_vars, robot_vars, sensor_vars, plan_vars, history_vars,
                   thread_vars, udp_stop, exists, started, start_result, poll_pending,
                   visuals_pending, now, draws>>

\* _udp_listener: the text is parsed and the pose converted, or the text is
\* dropped (lines 292-300)
ListenerParse ==
    /\ listener_pc = "parse"
    /\ LET pose == parse_pose_message(listener_msg)
       IN  IF pose # None
           THEN /\ listener_pose' = <<pose[1], pose[2], to_radians(pose[3])>>
                /\ listener_pc' = "acquire"
                /\ UNCHANGED listener_msg
           ELSE /\ listener_pc' = "check"
                /\ listener_msg' = None
                /\ UNCHANGED listener_pose
    /\ UNCHANGED <<theta_vars, map_vars, robot_vars, sensor_vars, plan_vars, history_vars,
                   udp_lock, udp_inbox, tk_pc, tk_read, udp_stop, exists, started,
                   start_result, poll_pending, visuals_pending, now, draws, prev_listener_pc>>

\* _udp_listener: "with self._udp_lock" (line 301)
ListenerAcquire ==
    /\ listener_pc = "acquire"
    /\ may_acquire(udp_lock)
    /\ udp_lock' = "listener"
    /\ listener_pc' = "store_x"
    /\ UNCHANGED <<theta_vars, map_vars, robot_vars, sensor_vars, plan_vars, history_vars,
                   listener_pose, listener_msg, udp_inbox, tk_pc, tk_read, udp_stop, exists,
                   started, start_result, poll_pending, visuals_pending, now, draws,
                   prev_listener_pc>>

\* line 302
ListenerStoreX ==
    /\ listener_pc = "store_x"
    /\ sensor_x' = listener_pose[1]
    /\ listener_pc' = "store_y"
    /\ UNCHANGED <<theta_vars, map_vars, robot_vars, sensor_y, sensor_theta, plan_vars,
                   history_vars, thread_vars, udp_stop, exists, started, start_result,
                   poll_pending, visuals_pending, now, draws>>

\* line 303
ListenerStoreY ==
    /\ listener_pc = "store_y"
    /\ sensor_y' = listener_pose[2]
    /\ listener_pc' = "store_theta"
    /\ UNCHANGED <<theta_vars, map_vars, robot_vars, sensor_x, sensor_theta, plan_vars,
                   history_vars, thread_vars, udp_stop, exists, started, start_result,
                   poll_pending, visuals_pending, now, draws>>

\* line 304 and the release at the end of the with block
ListenerStoreTheta ==
    /\ listener_pc = "store_theta"
    /\ sensor_theta' = listener_pose[3]
    /\ udp_lock' = "free"
    /\ listener_pose' = None
    /\ listener_msg' = None
    /\ listener_pc' = "check"
    /\ UNCHANGED <<theta_vars, map_vars, robot_vars, sensor_x, sensor_y, plan_vars,
                   history_vars, udp_inbox, tk_pc, tk_read, udp_stop, exists, started,
                   start_result, poll_pending, visuals_pending, now, draws, prev_listener_pc>>

\* update_visuals or poll_position_update enters its with block (lines 458, 560)
TkAcquire ==
    /\ tk_pc = "idle"
    /\ exists
    /\ may_acquire(udp_lock)
    /\ udp_lock' = "tk"
    /\ tk_pc' \in {"visuals_x", "poll_x"}
    /\ tk_read' = <<>>
    /\ UNCHANGED <<theta_vars, map_vars, robot_vars, sensor_vars, plan_vars, history_vars,
                   listener_pose, listener_msg, udp_inbox, udp_stop, exists, started,
                   start_result, poll_pending, visuals_pending, listener_pc, now, draws,
                   prev_listener_pc>>

\* sx = self.sensor_x (lines 459, 561)
TkReadX ==
    /\ tk_pc \in {"visuals_x", "poll_x"}
    /\ tk_read' = <<sensor_x>>
    /\ tk_pc' = IF tk_pc = "visuals_x" THEN "visuals_y" ELSE "poll_y"
    /\ UNCHANGED <<theta_vars, map_vars, robot_vars, sensor_vars, plan_vars, history_vars,
                   udp_lock, listener_pose, listener_msg, udp_inbox, udp_stop, exists, started,
                   start_result, poll_pending, visuals_pending, listener_pc, now, draws,
                   prev_listener_pc>>

\* sy = self.sensor_y (lines 460, 562); the with block of the poll ends here
TkReadY ==
    /\ tk_pc \in {"visuals_y", "poll_y"}
    /\ tk_read' = Append(tk_read, sensor_y)
    /\ tk_pc' = IF tk_pc = "visuals_y" THEN "visuals_theta" ELSE "idle"
    /\ udp_lock' = IF tk_pc = "visuals_y" THEN udp_lock ELSE "free"
    /\ UNCHANGED <<theta_vars, map_vars, robot_vars, sensor_vars, plan_vars, history_vars,
                   listener_pose, listener_msg, udp_inbox, udp_stop, exists, started,
                   start_result, poll_pending, visuals_pending, listener_pc, now, draws,
                   prev_listener_pc>>

\* stheta = self.sensor_theta (line 461) and the end of the with block
TkReadTheta ==
    /\ tk_pc = "visuals_theta"
    /\ tk_read' = Append(tk_read, sensor_theta)
    /\ tk_pc' = "idle"
    /\ udp_lock' = "free"
    /\ UNCHANGED <<theta_vars, map_vars, robot_vars, sensor_vars, plan_vars, history_vars,
                   listener_pose, listener_msg, udp_inbox, udp_stop, exists, started,
                   start_result, poll_pending, visuals_pending, listener_pc, now, draws,
                   prev_listener_pc>>

\* a running session whose listener thread has just been started
InitPose ==
    /\ ThetaIdle
    /\ store_grid = None
    /\ aisle_locations = None
    /\ target_aisle = None
    /\ map_args = None
    /\ start_result = "not called"
    /\ robot_x = 2 * PoseScale /\ robot_y = 2 * PoseScale /\ robot_theta = 0
    /\ sensor_x = 2 * PoseScale /\ sensor_y = 2 * PoseScale /\ sensor_theta = 0
    /\ current_goal = None
    /\ remaining_path = <<>>
    /\ last_path_time = 0
    /\ last_path_cell = None
    /\ udp_stop = FALSE
    /\ udp_lock = "free"
    /\ exists = TRUE
    /\ started = TRUE
    /\ poll_pending = TRUE
    /\ visuals_pending = TRUE
    /\ listener_pc = "bind"
    /\ udp_inbox = <<>>
    /\ listener_msg = None
    /\ listener_pose = None
    /\ prev_listener_pc = "none"
    /\ tk_pc = "idle"
    /\ tk_read = None
    /\ now = 0
    /\ draws = 0
    /\ arrivals = 0
    /\ search_log = <<>>

NextPose ==
    \/ Destroy
    \/ SendDatagram
    \/ ListenerBind
    \/ ListenerCheckStop
    \/ ListenerTimeout
    \/ ListenerRecv
    \/ ListenerRaise
    \/ ListenerParse
    \/ ListenerAcquire
    \/ ListenerStoreX
    \/ ListenerStoreY
    \/ ListenerStoreTheta
    \/ TkAcquire
    \/ TkReadX
    \/ TkReadY
    \/ TkReadTheta

SpecPose == InitPose /\ [][NextPose]_vars

\* the steps of the listener thread that end by themselves: the scheduler
\* keeps the thread running, and recvfrom returns a waiting datagram or times
\* out after 0.5 s (line 284)
ListenerStep ==
    \/ ListenerBind
    \/ ListenerCheckStop
    \/ ListenerTimeout
    \/ ListenerRecv
    \/ ListenerParse
    \/ ListenerAcquire
    \/ ListenerStoreX
    \/ ListenerStoreY
    \/ ListenerStoreTheta

SpecPoseFair == SpecPose /\ WF_vars(ListenerStep)

\* ------------------------------------------------------------------------
\* Specification of the return to the map: a session is destroyed and the
\* UI shows the map again while the listener thread of the destroyed
\* session may still run
\* ------------------------------------------------------------------------
\* show_map after Back (src/ui.py:49-64, 748-759; lines 212-268): clear() has
\* destroyed the former widget, whose listener is at its loop test, in
\* recvfrom with its socket bound, or has closed its socket; the new StoreMap
\* has its own fields, event and lock, and starts its own listener thread
ShowMapAgain ==
    /\ started
    /\ ~exists
    /\ tk_pc = "idle"
    /\ prev_listener_pc = "none"
    /\ listener_pc \in {"check", "recv", "closed"}
    /\ prev_listener_pc' = IF listener_pc = "closed" THEN "closed" ELSE "bound"
    /\ listener_pc' = "bind"
    /\ udp_stop' = FALSE
    /\ udp_lock' = "free"
    /\ exists' = TRUE
    /\ udp_inbox' = <<>>
    /\ listener_msg' = None
    /\ listener_pose' = None
    /\ tk_read' = None
    /\ robot_x' = 2 * PoseScale /\ robot_y' = 2 * PoseScale /\ robot_theta' = 0
    /\ sensor_x' = 2 * PoseScale /\ sensor_y' = 2 * PoseScale /\ sensor_theta' = 0
    /\ UNCHANGED <<theta_vars, map_vars, plan_vars, history_vars, tk_pc, started,
                   start_result, poll_pending, visuals_pending, now, draws>>

\* the listener of the destroyed session leaves recvfrom (after 0.5 s at the
\* latest), finds its event set and closes its socket (lines 284-289, 305-306)
PrevListenerCloses ==
    /\ prev_listener_pc = "bound"
    /\ prev_listener_pc' = "closed"
    /\ UNCHANGED <<theta_vars, map_vars, robot_vars, sensor_vars, plan_vars, history_vars,
                   udp_lock, listener_pose, listener_msg, udp_inbox, tk_pc, tk_read,
                   udp_stop, exists, started, start_result, poll_pending, visuals_pending,
                   listener_pc, now, draws>>

NextRebind ==
    \/ Destroy
    \/ ShowMapAgain
    \/ PrevListenerCloses
    \/ SendDatagram
    \/ ListenerBind
    \/ ListenerCheckStop
    \/ ListenerTimeout
    \/ ListenerRecv
    \/ ListenerParse
    \/ ListenerAcquire
    \/ ListenerStoreX
    \/ ListenerStoreY
    \/ ListenerStoreTheta

SpecRebind == InitPose /\ [][NextRebind]_vars

\* ------------------------------------------------------------------------
\* Specification of the smoothing: a session whose listener stores sensor
\* poses before the first redraw tick that sees them, and then none: the
\* ticks of update_visuals go on with the sensor pose held fixed
\* ------------------------------------------------------------------------
SensorArrives == draws = 0 /\ (ListenerCheckStop \/ ListenerReceive)

SmoothTick == draws < MaxSmoothTicks /\ update_visuals_tick

NextSmooth == StartSession \/ SensorArrives \/ SmoothTick

SpecSmooth == Init /\ [][NextSmooth]_vars

\* ------------------------------------------------------------------------
\* Specification of the search: theta_star on every small grid
\* ------------------------------------------------------------------------
Cells == (0 .. GridRows - 1) \X (0 .. GridCols - 1)

BlockedSets == {B \in SUBSET Cells : Cardinality(B) <= MaxBlocked}

GridOf(B) == [r \in 0 .. GridRows - 1 |->
                [c \in 0 .. GridCols - 1 |-> IF <<r, c>> \in B THEN 1 ELSE 0]]

\* no session exists
NoStoreMap ==
    /\ store_grid = None
    /\ aisle_locations = None
    /\ target_aisle = None
    /\ map_args = None
    /\ start_result = "not called"
    /\ robot_x = 0 /\ robot_y = 0 /\ robot_theta = 0
    /\ sensor_x = 0 /\ sensor_y = 0 /\ sensor_theta = 0
    /\ current_goal = None
    /\ remaining_path = <<>>
    /\ last_path_time = 0
    /\ last_path_cell = None
    /\ udp_stop = FALSE
    /\ udp_lock = "free"
    /\ exists = FALSE
    /\ started = FALSE
    /\ poll_pending = FALSE
    /\ visuals_pending = FALSE
    /\ listener_pc = "unstarted"
    /\ udp_inbox = <<>>
    /\ listener_msg = None
    /\ listener_pose = None
    /\ prev_listener_pc = "none"
    /\ tk_pc = "idle"
    /\ tk_read = None
    /\ now = 0
    /\ draws = 0
    /\ arrivals = 0
    /\ search_log = <<>>

session_vars == <<map_vars, robot_vars, sensor_vars, plan_vars, history_vars, thread_vars,
                  udp_stop, exists, started, start_result, poll_pending, visuals_pending,
                  listener_pc, now, draws>>

InitTheta == ThetaIdle /\ NoStoreMap

\* theta_star is called: lines 107-111
ThetaCall ==
    /\ t_pc = "idle"
    /\ \E B \in BlockedSets : t_grid' = GridOf(B)
    /\ t_start' \in Cells
    /\ t_goal' \in Cells
    /\ t_state' = theta_begin(t_start')
    /\ t_pc' = "running"
    /\ UNCHANGED <<t_sight, session_vars>>

\* one pass of the loop of the call, up to its return
ThetaIterate ==
    /\ t_pc = "running"
    /\ t_state' = theta_iteration(t_grid, t_goal, t_state)
    /\ t_pc' = IF t_state'.done THEN "returned" ELSE "running"
    /\ UNCHANGED <<t_grid, t_start, t_goal, t_sight, session_vars>>

\* line_of_sight is asked between two cells of a grid, in both directions
SightQuery ==
    /\ t_pc = "idle"
    /\ \E B \in BlockedSets : t_grid' = GridOf(B)
    /\ t_start' \in Cells
    /\ t_goal' \in Cells
    /\ t_sight' = <<line_of_sight(t_grid', t_start', t_goal'),
                    line_of_sight(t_grid', t_goal', t_start')>>
    /\ t_pc' = "sighted"
    /\ UNCHANGED <<t_state, session_vars>>

NextTheta == ThetaCall \/ ThetaIterate \/ SightQuery

SpecTheta == InitTheta /\ [][NextTheta]_vars

\* ------------------------------------------------------------------------
\* Specification of the search for any order of equal priorities: heappop
\* may return any entry of the least f (the order of the code among them)
\* ------------------------------------------------------------------------
least_f(open_set) == {x \in open_set : \A y \in open_set : x[1] <= y[1]}

ThetaIterateAnyTie ==
    /\ t_pc = "running"
    /\ IF t_state.open_set = {}
       THEN t_state' = theta_iteration(t_grid, t_goal, t_state)
       ELSE \E top \in least_f(t_state.open_set) :
               t_state' = theta_pass(t_grid, t_goal, t_state, top)
    /\ t_pc' = IF t_state'.done THEN "returned" ELSE "running"
    /\ UNCHANGED <<t_grid, t_start, t_goal, t_sight, session_vars>>

NextThetaTies == ThetaCall \/ ThetaIterateAnyTie

SpecThetaTies == InitTheta /\ [][NextThetaTies]_vars

\* ------------------------------------------------------------------------
\* Specification of the replan: theta_star called by a poll tick on a grid
\* with a Blocked perimeter, from the cell of any sensor pose
\* ------------------------------------------------------------------------
InnerCells == (1 .. InnerRows) \X (1 .. InnerCols)

InnerBlockedSets == {B \in SUBSET InnerCells : Cardinality(B) <= MaxInnerBlocked}

\* a grid as generate_map builds them: the outer ring Blocked (lines 59-65)
WalledGridOf(B) ==
    [r \in 0 .. InnerRows + 1 |->
       [c \in 0 .. InnerCols + 1 |->
          IF r \in {0, InnerRows + 1} \/ c \in {0, InnerCols + 1} \/ <<r, c>> \in B
          THEN 1 ELSE 0]]

\* cells (int(sy), int(sx)) of sensor poses: the cells of the grid and two
\* rings of cells around it
SensorCells == (-2 .. InnerRows + 3) \X (-2 .. InnerCols + 3)

\* theta_star(self.grid, current_cell, self.current_goal) (line 573); the
\* goal is a Free cell of the grid
ReplanCall ==
    /\ t_pc = "idle"
    /\ \E B \in InnerBlockedSets : t_grid' = WalledGridOf(B)
    /\ t_start' \in SensorCells
    /\ t_goal' \in InnerCells
    /\ t_grid'[t_goal'[1]][t_goal'[2]] = 0
    /\ t_state' = theta_begin(t_start')
    /\ t_pc' = "running"
    /\ UNCHANGED <<t_sight, session_vars>>

NextReplan == ReplanCall \/ ThetaIterate

SpecReplan == InitTheta /\ [][NextReplan]_vars

\* ------------------------------------------------------------------------
\* Specification of the map: generate_map on every pair of counts, and the
\* map the UI builds for an aisle of its catalog
\* ------------------------------------------------------------------------
AisleCounts == 0 .. MaxAisleCount

RowCounts == 0 .. MaxRowCount

InitMap == ThetaIdle /\ NoStoreMap

plain_session_vars == <<robot_vars, sensor_vars, plan_vars, history_vars, thread_vars,
                        udp_stop, exists, started, start_result, poll_pending,
                        visuals_pending, listener_pc, now, draws>>

\* generate_map(num_aisles, num_rows) is called and its grid and table kept;
\* no aisle is asked for (target_aisle 0)
CallGenerateMap ==
    /\ \E num_aisles \in AisleCounts, num_rows \in RowCounts :
          /\ map_args' = <<num_aisles, num_rows>>
          /\ store_grid' = generate_map(num_aisles, num_rows).grid
          /\ aisle_locations' = generate_map(num_aisles, num_rows).aisle_locs
    /\ target_aisle' = 0
    /\ UNCHANGED <<theta_vars, plain_session_vars>>

\* show_map(aisle) for the aisle of an item of a catalog whose highest aisle
\* number is highest (src/ui.py:748-759, src/map.py:220-224)
ShowMap ==
    /\ \E highest \in AisleCounts \ {0} :
          /\ target_aisle' \in 1 .. highest
          /\ map_args' = <<highest, AISLE_ROWS>>
          /\ store_grid' = generate_map(highest, AISLE_ROWS).grid
          /\ aisle_locations' = generate_map(highest, AISLE_ROWS).aisle_locs
    /\ UNCHANGED <<theta_vars, plain_session_vars>>

NextMap == CallGenerateMap \/ ShowMap

SpecMap == InitMap /\ [][NextMap]_vars

\* ------------------------------------------------------------------------
\* Properties of the search
\* ------------------------------------------------------------------------
Free(grid, cell) == grid[cell[1]][cell[2]] = 0

Blocked(grid, cell) == grid[cell[1]][cell[2]] = 1

\* one of the 8 offsets of neighbors leads from a to b
Adjacent(a, b) == a # b /\ Abs(a[1] - b[1]) <= 1 /\ Abs(a[2] - b[2]) <= 1

\* cells reachable from the cells of S by moves to one of the 8 neighbours through Free cells
RECURSIVE ReachableFrom(_, _)
ReachableFrom(grid, S) ==
    LET more == {n \in Cells \ S : Free(grid, n) /\ \E s \in S : Adjacent(s, n)}
    IN  IF more = {} THEN S ELSE ReachableFrom(grid, S \cup more)

\* Free start and goal with no way between them
Separated ==
    /\ t_pc \in {"running", "returned"}
    /\ Free(t_grid, t_start)
    /\ Free(t_grid, t_goal)
    /\ t_goal \notin ReachableFrom(t_grid, {t_start})

Returned == t_pc = "returned"

ReturnedPath == t_pc = "returned" /\ t_state.result # None

RECURSIVE ParentWalkReaches(_, _, _, _)
ParentWalkReaches(parent, n, start, fuel) ==
    IF parent[n] = n THEN n = start
    ELSE fuel > 0 /\ ParentWalkReaches(parent, parent[n], start, fuel - 1)

\* C4: theta_star returns None whenever the start cell or the goal cell is
\* Blocked; it never returns a path that begins or ends on a Blocked cell.
BlockedEndpointGivesNone ==
    (Returned /\ (Blocked(t_grid, t_start) \/ Blocked(t_grid, t_goal)))
        => t_state.result = None

\* measure of the work a running search has left: the cells without a
\* g_score, the sum of the g_scores, the size of open_set
RECURSIVE SumOver(_, _)
SumOver(f, S) ==
    IF S = {} THEN 0
    ELSE LET x == CHOOSE y \in S : TRUE
         IN  f[x] + SumOver(f, S \ {x})

SearchRank(st) ==
    <<Cardinality(Cells \ DOMAIN st.g_score),
      SumOver(st.g_score, DOMAIN st.g_score),
      Cardinality(st.open_set)>>

RankLess(a, b) ==
    \/ a[1] < b[1]
    \/ a[1] = b[1] /\ a[2] < b[2]
    \/ a[1] = b[1] /\ a[2] = b[2] /\ a[3] < b[3]

\* C5: when Free start and goal are separated by Blocked cells the search
\* terminates: every pass of the loop either returns or lowers a measure
\* that cannot fall forever (although cells are pushed again), and what the
\* search returns is None.
SeparatedSearchTerminates ==
    [][(Separated /\ t_pc = "running")
        => \/ t_pc' = "returned" /\ t_state'.result = None
           \/ t_pc' = "running" /\ RankLess(SearchRank(t_state'), SearchRank(t_state))]_vars

SeparatedSearchEnded ==
    /\ Separated
    /\ Returned
    /\ t_state.result = None
    /\ Cardinality(DOMAIN t_state.parent) > 1

\* C6: every pair of consecutive cells of a returned path (from a Free
\* start) is in line of sight of each other: no Blocked cell on the
\* segment and no Blocked cell beside a diagonal step.
PathNeverClipsCorner ==
    (ReturnedPath /\ Free(t_grid, t_start))
        => \A i \in 1 .. Len(t_state.result) - 1 :
               line_of_sight(t_grid, t_state.result[i], t_state.result[i + 1])

\* C7: line_of_sight(a, b) equals line_of_sight(b, a) for all cells a, b
\* of the grid.
LineOfSightSymmetric ==
    t_pc = "sighted" => t_sight[1] = t_sight[2]

\* C8: a returned path is the reversed walk over the parent pointers from
\* the goal: it starts with the start cell, ends with the goal cell, each
\* cell is the parent of the next one, and in every state of the search the
\* parent walk from any recorded cell reaches the start (no cycle but the
\* start's self-parent).
PathIsReversedParentWalk ==
    /\ t_pc \in {"running", "returned"} =>
       \A n \in DOMAIN t_state.parent :
           ParentWalkReaches(t_state.parent, n, t_start, Cardinality(DOMAIN t_state.parent))
    /\ ReturnedPath =>
           /\ t_state.result[1] = t_start
           /\ t_state.result[Len(t_state.result)] = t_goal
           /\ t_state.parent[t_start] = t_start
           /\ \A i \in 1 .. Len(t_state.result) - 1 :
                  t_state.parent[t_state.result[i + 1]] = t_state.result[i]

PathWithTurnReturned == ReturnedPath /\ Len(t_state.result) >= 3

\* sum of the Euclidean lengths of the segments of a path
RECURSIVE PathLength(_)
PathLength(path) ==
    IF Len(path) <= 1 THEN 0
    ELSE Hypot(path[1][1] - path[2][1], path[1][2] - path[2][2]) + PathLength(Tail(path))

AxisStep == Hypot(1, 0)

DiagonalStep == Hypot(1, 1)

StepCost(a, b) == IF a[1] # b[1] /\ a[2] # b[2] THEN DiagonalStep ELSE AxisStep

MinOf(S) == CHOOSE x \in S : \A y \in S : x <= y

\* cost, for every cell, of the cheapest walk from the cells of cost 0 over
\* Free cells by moves to one of the 8 neighbours: 1 for a move along an
\* axis, sqrt 2 for a diagonal one (Inf: no walk)
RECURSIVE WalkCosts(_, _)
WalkCosts(grid, cost) ==
    LET better == [c \in Cells |->
                     IF Blocked(grid, c) THEN cost[c]
                     ELSE MinOf({cost[c]} \cup
                                {cost[m] + StepCost(m, c) :
                                    m \in {n \in Cells : Adjacent(n, c) /\ cost[n] < Inf}})]
    IN  IF better = cost THEN cost ELSE WalkCosts(grid, better)

GridDistance(grid, start, goal) ==
    WalkCosts(grid, [c \in Cells |-> IF c = start THEN 0 ELSE Inf])[goal]

\* C20: the length of a path returned for Free start and goal is at most
\* the cost of the cheapest 8-connected walk over Free cells between them
\* and at least the straight-line distance between them.
PathBetweenLineAndGridWalk ==
    (ReturnedPath /\ Free(t_grid, t_start) /\ Free(t_grid, t_goal))
        => /\ PathLength(t_state.result) <= GridDistance(t_grid, t_start, t_goal)
           /\ PathLength(t_state.result) >= Hypot(t_start[1] - t_goal[1], t_start[2] - t_goal[2])

\* a returned path around a Blocked cell that is shorter than every walk
\* over the grid
PathShorterThanGridWalk ==
    /\ ReturnedPath
    /\ Free(t_grid, t_start)
    /\ Free(t_grid, t_goal)
    /\ \E c \in Cells : Blocked(t_grid, c)
    /\ PathLength(t_state.result) < GridDistance(t_grid, t_start, t_goal)

\* cells of the rectangle spanned by a and b
Between(a, b) ==
    {c \in Cells : /\ (a[1] <= c[1] /\ c[1] <= b[1]) \/ (b[1] <= c[1] /\ c[1] <= a[1])
                   /\ (a[2] <= c[2] /\ c[2] <= b[2]) \/ (b[2] <= c[2] /\ c[2] <= a[2])}

\* C21: when no cell between two distinct cells start and goal is Blocked,
\* theta_star returns the single straight segment <<start, goal>>; on a grid
\* without any Blocked cell every cell the search records has the start as
\* its parent.
ClearGridGivesStraightSegment ==
    /\ (Returned /\ t_start # t_goal /\ \A c \in Between(t_start, t_goal) : Free(t_grid, c))
           => t_state.result = <<t_start, t_goal>>
    /\ (t_pc \in {"running", "returned"} /\ \A c \in Cells : Free(t_grid, c))
           => \A n \in DOMAIN t_state.parent : t_state.parent[n] = t_start

\* a straight segment returned between two cells that are not neighbours
StraightSegmentReturned ==
    /\ Returned
    /\ t_start # t_goal
    /\ ~Adjacent(t_start, t_goal)
    /\ t_start[1] # t_goal[1]
    /\ \A c \in Cells : Free(t_grid, c)
    /\ t_state.result = <<t_start, t_goal>>

\* the index pair is one of the grid
InsideGrid(grid, cell) ==
    /\ cell[1] \in DOMAIN grid
    /\ cell[2] \in DOMAIN grid[cell[1]]

\* the index pairs the corner test of lines 144 and 156 reads (the second
\* one only when the first cell is not Blocked)
corner_reads(grid, side, ahead) ==
    IF InsideGrid(grid, side) /\ grid[side[1]][side[2]] = 0 THEN {side, ahead} ELSE {side}

\* every cell of S is a cell of the grid and not Blocked
AllClear(grid, S) == \A cell \in S : InsideGrid(grid, cell) /\ grid[cell[1]][cell[2]] = 0

\* the index pairs read by the walk of lines 138-148, up to its return
RECURSIVE los_reads_cols(_, _, _, _, _, _, _, _, _)
los_reads_cols(grid, r, c, err2, dr, dc, step_r, step_c, c1) ==
    IF c = c1 THEN {}
    ELSE IF ~AllClear(grid, {<<r, c>>}) THEN {<<r, c>>}
    ELSE LET e == err2 - 2 * dr
             corner == corner_reads(grid, <<r + step_r, c>>, <<r, c + step_c>>)
         IN  IF e < 0
             THEN IF ~AllClear(grid, corner)
                  THEN {<<r, c>>} \cup corner
                  ELSE {<<r, c>>} \cup corner
                       \cup los_reads_cols(grid, r + step_r, c + step_c, e + 2 * dc,
                                           dr, dc, step_r, step_c, c1)
             ELSE {<<r, c>>}
                  \cup los_reads_cols(grid, r, c + step_c, e, dr, dc, step_r, step_c, c1)

\* the index pairs read by the walk of lines 151-160, up to its return
RECURSIVE los_reads_rows(_, _, _, _, _, _, _, _, _)
los_reads_rows(grid, r, c, err2, dr, dc, step_r, step_c, r1) ==
    IF r = r1 THEN {}
    ELSE IF ~AllClear(grid, {<<r, c>>}) THEN {<<r, c>>}
    ELSE LET e == err2 - 2 * dc
             corner == corner_reads(grid, <<r + step_r, c>>, <<r, c + step_c>>)
         IN  IF e < 0
             THEN IF ~AllClear(grid, corner)
                  THEN {<<r, c>>} \cup corner
                  ELSE {<<r, c>>} \cup corner
                       \cup los_reads_rows(grid, r + step_r, c + step_c, e + 2 * dr,
                                           dr, dc, step_r, step_c, r1)
             ELSE {<<r, c>>}
                  \cup los_reads_rows(grid, r + step_r, c, e, dr, dc, step_r, step_c, r1)

\* the index pairs line_of_sight(a, b) reads in the grid (lines 124-162)
los_reads(grid, a, b) ==
    LET step_r == IF b[1] - a[1] > 0 THEN 1 ELSE -1
        step_c == IF b[2] - a[2] > 0 THEN 1 ELSE -1
        dr == Abs(b[1] - a[1])
        dc == Abs(b[2] - a[2])
    IN  IF ~AllClear(grid, {a}) THEN {a}
        ELSE IF ~AllClear(grid, {b}) THEN {a, b}
        ELSE IF dc > dr
             THEN {a, b} \cup los_reads_cols(grid, a[1], a[2], dc, dr, dc, step_r, step_c, b[2])
             ELSE {a, b} \cup los_reads_rows(grid, a[1], a[2], dr, dr, dc, step_r, step_c, b[1])

\* the index pairs the next pass of the loop reads in the grid (lines 184
\* and 190), for every offset of neighbors
IterationReads(grid, goal, st) ==
    IF st.open_set = {} THEN {}
    ELSE LET current == heap_top(st.open_set)[2]
         IN  IF current = goal THEN {}
             ELSE UNION {LET neighbour == <<current[1] + neighbors[i][1],
                                            current[2] + neighbors[i][2]>>
                         IN  IF ~in_bounds(grid, neighbour) THEN {}
                             ELSE IF ~AllClear(grid, {neighbour}) THEN {neighbour}
                             ELSE {neighbour}
                                  \cup los_reads(grid, st.parent[current], neighbour) :
                         i \in 1 .. Len(neighbors)}

\* C26: a replan from the cell of any sensor pose (outside the grid and
\* Blocked cells included) on a grid with a Blocked perimeter reads the grid
\* only at index pairs of the grid, in theta_star and in line_of_sight with
\* its corner tests, and returns None or a path from the start to the goal.
ReplanReadsInsideGrid ==
    /\ t_pc = "running"
           => \A cell \in IterationReads(t_grid, t_goal, t_state) : InsideGrid(t_grid, cell)
    /\ Returned
           => \/ t_state.result = None
              \/ /\ t_state.result[1] = t_start
                 /\ t_state.result[Len(t_state.result)] = t_goal

\* a replan from a cell outside the grid has met the wall and returned None
ReplanFromOutsideReturned ==
    /\ Returned
    /\ ~InsideGrid(t_grid, t_start)
    /\ \E i \in 1 .. Len(neighbors) :
           InsideGrid(t_grid, <<t_start[1] + neighbors[i][1], t_start[2] + neighbors[i][2]>>)
    /\ t_state.result = None

\* C28: theta_star is complete: for Free start and goal it returns a path
\* if and only if the goal can be reached from the start by moves to one of
\* the 8 neighbours through Free cells, whichever entry of the least f is
\* popped.
SearchComplete ==
    (Returned /\ Free(t_grid, t_start) /\ Free(t_grid, t_goal))
        => (t_state.result # None <=> t_goal \in ReachableFrom(t_grid, {t_start}))

\* a path returned around Blocked cells by a search that popped, among
\* entries of equal f, another one than the code does
PathFoundInOtherPopOrder ==
    /\ ReturnedPath
    /\ Free(t_grid, t_start)
    /\ Len(t_state.result) >= 3
    /\ t_state.result # theta_star(t_grid, t_start, t_goal)

\* ------------------------------------------------------------------------
\* Properties of the session
\* ------------------------------------------------------------------------
ReplanInterval == PATH_RECALC_INTERVAL_S * TicksPerSecond

SensorCell == <<int(sensor_y), int(sensor_x)>>

RobotCell == <<int(robot_y), int(robot_x)>>

\* C1: in one session on_arrival is called at most once, whatever poses and
\* poll ticks follow the first arrival.
OnArrivalAtMostOnce == arrivals <= 1

ArrivedThenLeftRadius ==
    /\ arrivals = 1
    /\ exists
    /\ ~within_arrival(sensor_x, sensor_y, current_goal)

\* C2: between two consecutive theta_star calls of poll ticks at least
\* PATH_RECALC_INTERVAL_S passes and the start cell changes.
ReplansThrottled ==
    \A i \in 1 .. Len(search_log) - 1 :
        /\ search_log[i + 1].time - search_log[i].time >= ReplanInterval
        /\ search_log[i + 1].cell # search_log[i].cell

ReplannedTwice == Len(search_log) >= 2

\* C3: the fields a reader has taken under the lock all belong to one pose:
\* the initial one or one stored by the listener.
KnownPoses ==
    {<<2 * PoseScale, 2 * PoseScale, 0>>}
        \cup {<<p.x, p.z, to_radians(p.theta)>> : p \in Samples}

NoTornPose ==
    \E p \in KnownPoses : \A i \in 1 .. Len(tk_read) : tk_read[i] = p[i]

ReadWhileListenerWaits ==
    /\ tk_pc = "idle"
    /\ Len(tk_read) = 3
    /\ tk_read[1] # 2 * PoseScale
    /\ listener_pc = "acquire"
    /\ listener_pose[1] # tk_read[1]

NoPathKeepsPlanAndRetries ==
    [][LET n == Len(search_log)
       IN  /\ (Len(search_log') > n /\ search_log'[n + 1].path = None)
               => /\ remaining_path' = remaining_path
                  /\ current_goal' = current_goal
                  /\ poll_pending'
           /\ (/\ n > 0
               /\ search_log[n].path = None
               /\ last_path_time' # last_path_time
               /\ SensorCell # last_path_cell)
               => Len(search_log') = n + 1]_vars

RetriedAfterNoPath ==
    /\ Len(search_log) >= 2
    /\ search_log[1].path = None
    /\ search_log[2].path # None
    /\ remaining_path = Tail(search_log[2].path)

\* C11: starting navigation for an aisle id that is not in the aisle table
\* signals an error to the caller: what the caller gets differs from what it
\* gets from the start for any aisle of the table.
UnknownAisleSignalsError ==
    (started /\ target_aisle \notin DOMAIN aisle_locations)
        => \A a \in DOMAIN aisle_locations :
               start_result # start_navigation_result(a, aisle_locations)

\* C12: after a start for an aisle id that is not in the table the session
\* stays idle: current_goal stays None, remaining_path stays empty, and no
\* poll tick calls theta_star or on_arrival, whatever poses arrive.
UnknownAisleStaysIdle ==
    (started /\ target_aisle \notin DOMAIN aisle_locations)
        => /\ current_goal = None
           /\ remaining_path = <<>>
           /\ arrivals = 0
           /\ search_log = <<>>

\* the poll runs for an aisle outside the table while the sensor pose is next
\* to a goal of the table and the throttle interval has passed
IdleWhileSamplesArrive ==
    /\ started
    /\ exists
    /\ poll_pending
    /\ target_aisle \notin DOMAIN aisle_locations
    /\ within_arrival(sensor_x, sensor_y, aisle_locations[1].goal)
    /\ now - last_path_time >= ReplanInterval

\* the words of C13: the text parses as JSON with x, z, theta or as a
\* comma-separated triple
IsPoseText(message) ==
    /\ message # None
    /\ Len(message.parts) >= 3
    /\ \A i \in 1 .. 3 : message.parts[i].kind = "float"

InGrid(cell) ==
    /\ 0 <= cell[1] /\ cell[1] < grid_height
    /\ 0 <= cell[2] /\ cell[2] < grid_width

\* C13: a malformed or out-of-range sensor message never changes the sensor
\* pose: a step changes sensor_x, sensor_y or sensor_theta only while the
\* listener works on a text that parses as a pose, and the pose the listener
\* has stored always maps to a cell inside the grid.
BadSamplesNeverStored ==
    [][/\ sensor_vars' # sensor_vars => IsPoseText(listener_msg)
       /\ udp_lock' # "listener" => InGrid(<<int(sensor_y'), int(sensor_x')>>)]_vars

\* C14: once the stop flag is set the listener thread leaves its loop and
\* closes its socket, whether datagrams keep arriving or none arrives, and
\* whichever way the thread leaves.
ListenerStopsAfterDestroy == udp_stop ~> listener_pc = "closed"

\* the listener has stored poses and closed its socket after the destroy
ListenerClosedAfterDestroy ==
    /\ udp_stop
    /\ listener_pc = "closed"
    /\ sensor_x # 2 * PoseScale

\* C15: once the widget of a session is destroyed, no step of the session
\* calls theta_star, changes remaining_path, current_goal or the displayed
\* pose, calls on_arrival or schedules a callback; a callback that was
\* pending can only end, and destroying again changes nothing.
CancelledSessionStaysSilent ==
    [][~exists =>
          /\ search_log' = search_log
          /\ arrivals' = arrivals
          /\ plan_vars' = plan_vars
          /\ robot_vars' = robot_vars
          /\ draws' = draws
          /\ (poll_pending' => poll_pending)
          /\ (visuals_pending' => visuals_pending)
          /\ exists' = exists
          /\ udp_stop' = udp_stop]_vars

\* a session cancelled on its way: both callbacks have run once more and
\* ended, although the last stored pose is within the arrival radius
CancelledCallbacksEnded ==
    /\ ~exists
    /\ ~poll_pending
    /\ ~visuals_pending
    /\ current_goal # None
    /\ arrivals = 0
    /\ within_arrival(sensor_x, sensor_y, current_goal)

\* ------------------------------------------------------------------------
\* Properties of the map
\* ------------------------------------------------------------------------
Ceil(a, b) == (a + b - 1) \div b

\* rows of the grid that hold goal cells
GoalRows(table) == {table[a].goal[1] : a \in DOMAIN table}

\* C16: generate_map(aisle_count, row_count) gives a table whose keys are
\* the aisle ids 1 .. aisle_count, in at most row_count rows of at most
\* ceil(aisle_count / row_count) aisles, so the aisle the UI asks for, which
\* is at most the highest aisle of the catalog, has a goal cell.
AisleTableCoversCounts ==
    (map_args # None /\ map_args[1] >= 1 /\ map_args[2] >= 1)
        => /\ DOMAIN aisle_locations = 1 .. map_args[1]
           /\ Cardinality(GoalRows(aisle_locations)) <= map_args[2]
           /\ \A y \in GoalRows(aisle_locations) :
                  Cardinality({a \in DOMAIN aisle_locations : aisle_locations[a].goal[1] = y})
                      <= Ceil(map_args[1], map_args[2])
           /\ target_aisle # 0 => target_aisle \in DOMAIN aisle_locations

\* C17: generate_map rejects an aisle count or a row count below 1: it
\* returns no grid and no aisle table.
InvalidCountsRejected ==
    (map_args # None /\ (map_args[1] < 1 \/ map_args[2] < 1))
        => store_grid = None /\ aisle_locations = None

\* C18: the goal cell of every aisle of the table is inside the grid, is
\* Free and has a Free cell among its 8 neighbours.
GoalCellsFreeAndOpen ==
    map_args # None
        => \A a \in DOMAIN aisle_locations :
               LET g == aisle_locations[a].goal
               IN  /\ InGrid(g)
                   /\ store_grid[g[1]][g[2]] = 0
                   /\ \E i \in 1 .. Len(neighbors) :
                          LET n == <<g[1] + neighbors[i][1], g[2] + neighbors[i][2]>>
                          IN  InGrid(n) /\ store_grid[n[1]][n[2]] = 0

\* the UI has built the map for the last aisle of the table
MapBuiltForLastAisle ==
    /\ map_args = <<16, AISLE_ROWS>>
    /\ target_aisle = 16
    /\ Cardinality(DOMAIN aisle_locations) = 16

RingBlocked(grid) ==
    \A r \in DOMAIN grid : \A c \in DOMAIN grid[r] :
        (r = 0 \/ r = rows(grid) - 1 \/ c = 0 \/ c = cols(grid) - 1) => grid[r][c] = 1

\* C19: every cell of the outer ring of a grid of generate_map is Blocked
\* (of the grid of the session and of the grid for any other counts), and no
\* step of the session, navigation, replanning or drawing, changes the grid.
PerimeterBlockedGridFrozen ==
    [][/\ store_grid' = store_grid
       /\ ~started =>
              /\ RingBlocked(store_grid)
              /\ \A na \in AisleCounts, nr \in RowCounts :
                     RingBlocked(generate_map(na, nr).grid)]_vars

\* the session has replanned and drawn on the grid
ReplannedAndDrawn ==
    /\ Len(search_log) >= 1
    /\ search_log[1].path # None
    /\ draws >= 1
    /\ RingBlocked(store_grid)

\* ------------------------------------------------------------------------
\* Properties of the smoothing
\* ------------------------------------------------------------------------
\* the threshold 0.001 of lines 467 and 476, in 1/PoseScale
SmoothEpsilon == PoseScale \div 1000

\* ticks after which a residual of up to 5 cells is below the threshold
SettleTicks == 40

\* new lies between old and target (ends included)
BetweenValues(old, new, target) ==
    \/ old <= new /\ new <= target
    \/ target <= new /\ new <= old

\* the heading residual wrapped into [-pi, pi) (lines 472-474)
WrappedDiff(stheta, theta) == ((stheta - theta + Pi) % (2 * Pi)) - Pi

\* C22: with the sensor pose held fixed, no tick of update_visuals
\* overshoots (each displayed coordinate ends between its previous value
\* and the sensor coordinate; the wrapped heading residual shrinks without
\* changing sign), and after SettleTicks ticks the displayed position is
\* within the threshold of the sensor position.
SmoothingConvergesWithoutOvershoot ==
    /\ [][draws' = draws + 1 =>
            /\ BetweenValues(robot_x, robot_x', sensor_x)
            /\ BetweenValues(robot_y, robot_y', sensor_y)
            /\ BetweenValues(WrappedDiff(sensor_theta, robot_theta),
                             WrappedDiff(sensor_theta', robot_theta'), 0)]_vars
    /\ [](draws >= SettleTicks =>
            /\ Abs(sensor_x - robot_x) <= SmoothEpsilon
            /\ Abs(sensor_y - robot_y) <= SmoothEpsilon)

\* the displayed position has settled next to a sensor position more than
\* four cells away from where it began
SmoothedOntoFarSample ==
    /\ draws >= SettleTicks
    /\ sensor_y = 63000
    /\ Abs(sensor_y - robot_y) <= SmoothEpsilon
    /\ Abs(sensor_x - robot_x) <= SmoothEpsilon

\* C30: smoothing snaps at the threshold: a tick that finds the residual
\* below the threshold sets the displayed value to the sensor value, so
\* with the sensor pose held fixed the displayed pose equals the sensor pose
\* exactly once the residual has been below the threshold at a tick (at the
\* latest at tick SettleTicks + 1).
SmoothingSnapsAtEpsilon ==
    draws > SettleTicks =>
        /\ robot_x = sensor_x
        /\ robot_y = sensor_y
        /\ WrappedDiff(sensor_theta, robot_theta) = 0

\* ------------------------------------------------------------------------
\* Properties of the replanning
\* ------------------------------------------------------------------------
\* the session is navigating, has not arrived, and a poll tick is due
PollTickDue ==
    /\ poll_pending
    /\ winfo_exists(exists)
    /\ current_goal # None
    /\ ~within_arrival(sensor_x, sensor_y, current_goal)

\* what the poll tick run in this state does at lines 571-572
PollTickReplans ==
    /\ interval_elapsed(now, last_path_time)
    /\ SensorCell # last_path_cell

\* C23: the throttle counts from the last replan: a poll tick (navigating,
\* not arrived) at which PATH_RECALC_INTERVAL_S has passed since the last
\* theta_star call of a poll tick, from a cell other than the one that call
\* started from, calls theta_star; ticks skipped for an unchanged cell
\* postpone nothing.
ThrottleCountsFromLastReplan ==
    (/\ PollTickDue
     /\ search_log # <<>>
     /\ now - search_log[Len(search_log)].time >= ReplanInterval
     /\ SensorCell # search_log[Len(search_log)].cell)
        => PollTickReplans

\* the cell start_navigation plans from: int() of the placeholder pose
\* (2.0, 2.0) of the constructor
StartCell == <<2, 2>>

\* C24: the path computed by start_navigation counts as a replan for the
\* throttle: the first poll tick after the start, with the sensor pose still
\* in the start cell, does not call theta_star from that cell again.
InitialPlanCountsAsReplan ==
    (/\ PollTickDue
     /\ search_log = <<>>
     /\ last_path_time = 0
     /\ SensorCell = StartCell)
        => ~PollTickReplans

\* C25: arrival ends the planning of the session: the tick that declares
\* arrival calls no theta_star and sets no further tick, and from then on
\* no step changes remaining_path, calls theta_star or sets a poll tick.
ArrivalEndsPlanning ==
    [][(arrivals' > arrivals \/ arrivals >= 1)
          => /\ remaining_path' = remaining_path
             /\ search_log' = search_log
             /\ ~poll_pending']_vars

\* after the arrival the sensor pose has left the radius for another cell
\* and the throttle interval has passed: a poll tick would replan
ArrivedAndReplanWouldBeDue ==
    /\ arrivals = 1
    /\ exists
    /\ ~poll_pending
    /\ ~within_arrival(sensor_x, sensor_y, current_goal)
    /\ PollTickReplans

\* ------------------------------------------------------------------------
\* Properties of the return to the map
\* ------------------------------------------------------------------------
\* C27: when a session follows a destroyed one, at any delay, its listener
\* binds the port after the listener of the destroyed session has released
\* it, so that the bind succeeds and the samples of the new session reach it.
NewListenerFindsPortFree ==
    (prev_listener_pc # "none" /\ listener_pc = "bind") => prev_listener_pc = "closed"

\* ------------------------------------------------------------------------
\* Properties of the stored path
\* ------------------------------------------------------------------------
\* C29: a poll tick whose theta_star call returns a path P replaces
\* remaining_path by P without its first cell, which is the cell of the
\* sensor pose; only the start and such a tick change remaining_path.
ReplanReplacesRemainingPath ==
    [][LET n == Len(search_log)
           replanned == Len(search_log') > n /\ search_log'[n + 1].path # None
       IN  /\ replanned => /\ remaining_path' = Tail(search_log'[n + 1].path)
                           /\ search_log'[n + 1].path[1] = SensorCell
           /\ remaining_path' # remaining_path => (replanned \/ (~started /\ started'))]_vars

\* a second successful replan has replaced what the first one had stored
SecondReplanReplacedFirst ==
    /\ Len(search_log) >= 2
    /\ search_log[1].path # None
    /\ search_log[2].path # None
    /\ remaining_path = Tail(search_log[2].path)
    /\ remaining_path # Tail(search_log[1].path)

====
